---- MODULE Spec2Model ----
(***************************************************************************)
(* Model of the desktop-entry parser of src/lib.rs.                        *)
(*                                                                         *)
(* A Rust String is modelled as a sequence of one-character strings, so    *)
(* that starts_with, ends_with, splitn, trim and format! are computed on   *)
(* characters.  A HashMap is a function whose DOMAIN is the set of keys.   *)
(*                                                                         *)
(*   Spec      parse_desktop_entry: the line loop of                       *)
(*             parse_desktop_entry_raw, one action per way a line is       *)
(*             handled, then the typed projection of its result.           *)
(*   SpecProj  TryFrom<RawDesktopEntry> for DesktopEntryType called on a   *)
(*             raw mapping built by the caller.                            *)
(*                                                                         *)
(* The input is the sequence of lines that content.lines() yields; the     *)
(* read of the file (line 86) is taken to have succeeded, so IoError does  *)
(* not occur.                                                              *)
(***************************************************************************)
EXTENDS Integers, Sequences, FiniteSets, TLC

VARIABLES content, idx, current_group, groups, pc, raw_result, result

vars == <<content, idx, current_group, groups, pc, raw_result, result>>

----------------------------------------------------------------------------
(* String literals of the source and of the inputs.                        *)

sDesktopEntry == <<"D","e","s","k","t","o","p"," ","E","n","t","r","y">>
sType == <<"T","y","p","e">>
sApplication == <<"A","p","p","l","i","c","a","t","i","o","n">>
sLink == <<"L","i","n","k">>
sDirectory == <<"D","i","r","e","c","t","o","r","y">>
sVersion == <<"V","e","r","s","i","o","n">>
sName == <<"N","a","m","e">>
sGenericName == <<"G","e","n","e","r","i","c","N","a","m","e">>
sNoDisplay == <<"N","o","D","i","s","p","l","a","y">>
sComment == <<"C","o","m","m","e","n","t">>
sIcon == <<"I","c","o","n">>
sHidden == <<"H","i","d","d","e","n">>
sOnlyShowIn == <<"O","n","l","y","S","h","o","w","I","n">>
sNotShowIn == <<"N","o","t","S","h","o","w","I","n">>
sTryExec == <<"T","r","y","E","x","e","c">>
sExec == <<"E","x","e","c">>
sPath == <<"P","a","t","h">>
sTerminal == <<"T","e","r","m","i","n","a","l">>
sActions == <<"A","c","t","i","o","n","s">>
sMimeType == <<"M","i","m","e","T","y","p","e">>
sCategories == <<"C","a","t","e","g","o","r","i","e","s">>
sKeywords == <<"K","e","y","w","o","r","d","s">>
sStartupNotify == <<"S","t","a","r","t","u","p","N","o","t","i","f","y">>
sStartupWMClass == <<"S","t","a","r","t","u","p","W","M","C","l","a","s","s">>
sPrefersNonDefaultGPU ==
    <<"P","r","e","f","e","r","s","N","o","n","D","e","f","a","u","l","t","G","P","U">>
sSingleMainWindow ==
    <<"S","i","n","g","l","e","M","a","i","n","W","i","n","d","o","w">>
sURL == <<"U","R","L">>
sTrue == <<"t","r","u","e">>
sFalse == <<"f","a","l","s","e">>

msgOutsideGroup ==
    <<"E","n","t","r","y"," ","f","o","u","n","d"," ","o","u","t","s","i","d","e",
      " ","o","f"," ","g","r","o","u","p">>
msgNotKeyValue ==
    <<"E","n","t","r","y"," ","n","o","t"," ","k","e","y","/","v","a","l","u","e">>
msgGroupMissing ==
    <<"D","e","s","k","t","o","p"," ","e","n","t","r","y"," ","g","r","o","u","p",
      " ","m","i","s","s","i","n","g","!">>
msgTypeMissing ==
    <<"E","n","t","r","y"," ","t","y","p","e"," ","m","i","s","s","i","n","g","!">>
msgUnknownType ==
    <<"U","n","k","n","o","w","n"," ","e","n","t","r","y"," ","t","y","p","e"," ">>
msgMissingName ==
    <<"M","i","s","s","i","n","g"," ","r","e","q","u","i","r","e","d"," ","k","e","y",
      " ","'","N","a","m","e","'">>
msgMissingURL ==
    <<"M","i","s","s","i","n","g"," ","r","e","q","u","i","r","e","d"," ","k","e","y",
      " ","'","U","R","L","'">>

----------------------------------------------------------------------------
(* Result, Option and HashMap.                                             *)

Ok(v) == [tag |-> "Ok", value |-> v]

FormatError(m) == [tag |-> "Err", kind |-> "FormatError", msg |-> m]

Pending == [tag |-> "Pending"]

None == [some |-> FALSE]

Some(v) == [some |-> TRUE, value |-> v]

EmptyMap == [k \in {} |-> <<>>]

(* HashMap::get: an Option of the value stored under k.                    *)
get(map, k) == IF k \in DOMAIN map THEN Some(map[k]) ELSE None

(* HashMap::insert: adds k or overwrites the value stored under it.        *)
insert(map, k, v) == [x \in DOMAIN map \cup {k} |-> IF x = k THEN v ELSE map[x]]

(* A variant that replaces the group's map instead of adding to it.        *)
entry_insert_replacing(map, g, k, v) == insert(map, g, insert(EmptyMap, k, v))

(* groups.entry(g).or_insert_with(HashMap::new).insert(k, v)               *)
entry_insert(map, g, k, v) ==
    insert(map, g, insert(IF g \in DOMAIN map THEN map[g] ELSE EmptyMap, k, v))

----------------------------------------------------------------------------
(* String operations used by parse_desktop_entry_raw.                      *)

is_empty(s) == Len(s) = 0

starts_with(s, c) == Len(s) > 0 /\ s[1] = c

ends_with(s, c) == Len(s) > 0 /\ s[Len(s)] = c

(* char::is_whitespace over the characters of the inputs.                  *)
is_whitespace(c) == c \in {" ", "\t"}

(* str::trim: the slice between the first and the last character that is   *)
(* not whitespace; empty when there is none.                               *)
trim(s) ==
    LET keep == {i \in 1..Len(s) : ~is_whitespace(s[i])}
    IN  IF keep = {} THEN <<>>
        ELSE SubSeq(s, CHOOSE i \in keep : \A j \in keep : i <= j,
                       CHOOSE i \in keep : \A j \in keep : j <= i)

(* A variant that yields an empty second part for a line without '='.     *)
splitn2_padded(line) ==
    LET eqs == {i \in 1..Len(line) : line[i] = "="}
    IN  IF eqs = {} THEN <<line, <<>>>>
        ELSE LET p == CHOOSE i \in eqs : \A j \in eqs : i <= j
             IN  <<SubSeq(line, 1, p - 1), SubSeq(line, p + 1, Len(line))>>

(* line.splitn(2, '=').collect(): the whole line when it has no '=',       *)
(* otherwise what precedes the first '=' and everything after it.          *)
splitn2(line) ==
    LET eqs == {i \in 1..Len(line) : line[i] = "="}
    IN  IF eqs = {} THEN <<line>>
        ELSE LET p == CHOOSE i \in eqs : \A j \in eqs : i <= j
             IN  <<SubSeq(line, 1, p - 1), SubSeq(line, p + 1, Len(line))>>

(* A variant that skips empty lines only.                                  *)
is_skipped_empty_only(line) == is_empty(line)

(* line.is_empty() || line.starts_with('#')                                *)
is_skipped(line) == is_empty(line) \/ starts_with(line, "#")

(* line.starts_with('[') && line.ends_with(']')                            *)
is_group_header(line) == starts_with(line, "[") /\ ends_with(line, "]")

(* line[1..line.len() - 1]                                                 *)
header_name(line) == SubSeq(line, 2, Len(line) - 1)

----------------------------------------------------------------------------
(* parse_desktop_entry_raw.                                                *)

(* A variant that tests for '=' before it tests for a group.               *)
loop_body_split_first(cg, gs, line) ==
    IF is_skipped(line)
    THEN [branch |-> "skip", current_group |-> cg, groups |-> gs, ret |-> Pending]
    ELSE IF is_group_header(line)
    THEN [branch |-> "header", current_group |-> header_name(line), groups |-> gs,
          ret |-> Pending]
    ELSE LET entry == splitn2(line)
         IN  IF Len(entry) # 2
             THEN [branch |-> "not_kv", current_group |-> cg, groups |-> gs,
                   ret |-> FormatError(msgNotKeyValue)]
             ELSE IF is_empty(cg)
             THEN [branch |-> "outside", current_group |-> cg, groups |-> gs,
                   ret |-> FormatError(msgOutsideGroup)]
             ELSE [branch |-> "insert", current_group |-> cg,
                   groups |-> entry_insert(gs, cg, trim(entry[1]), trim(entry[2])),
                   ret |-> Pending]

(* A variant whose header branch creates the group's entry at once.        *)
loop_body_header_inserts(cg, gs, line) ==
    IF is_skipped(line)
    THEN [branch |-> "skip", current_group |-> cg, groups |-> gs, ret |-> Pending]
    ELSE IF is_group_header(line)
    THEN [branch |-> "header", current_group |-> header_name(line),
          groups |-> insert(gs, header_name(line),
                            IF header_name(line) \in DOMAIN gs
                            THEN gs[header_name(line)] ELSE EmptyMap),
          ret |-> Pending]
    ELSE IF is_empty(cg)
    THEN [branch |-> "outside", current_group |-> cg, groups |-> gs,
          ret |-> FormatError(msgOutsideGroup)]
    ELSE LET entry == splitn2(line)
         IN  IF Len(entry) # 2
             THEN [branch |-> "not_kv", current_group |-> cg, groups |-> gs,
                   ret |-> FormatError(msgNotKeyValue)]
             ELSE [branch |-> "insert", current_group |-> cg,
                   groups |-> entry_insert(gs, cg, trim(entry[1]), trim(entry[2])),
                   ret |-> Pending]

(* The body of `for line in content.lines()`, for one line: the branch it  *)
(* takes, the locals after it, and the value it returns when it returns.   *)
loop_body(cg, gs, line) ==
    IF is_skipped(line)
    THEN [branch |-> "skip", current_group |-> cg, groups |-> gs, ret |-> Pending]
    ELSE IF is_group_header(line)
    THEN [branch |-> "header", current_group |-> header_name(line), groups |-> gs,
          ret |-> Pending]
    ELSE IF is_empty(cg)
    THEN [branch |-> "outside", current_group |-> cg, groups |-> gs,
          ret |-> FormatError(msgOutsideGroup)]
    ELSE LET entry == splitn2(line)
         IN  IF Len(entry) # 2
             THEN [branch |-> "not_kv", current_group |-> cg, groups |-> gs,
                   ret |-> FormatError(msgNotKeyValue)]
             ELSE [branch |-> "insert", current_group |-> cg,
                   groups |-> entry_insert(gs, cg, trim(entry[1]), trim(entry[2])),
                   ret |-> Pending]

RECURSIVE run_lines(_, _, _, _)
(* The loop from line i + 1 on, with locals cg and gs, then Ok(groups).    *)
run_lines(lines, i, cg, gs) ==
    IF i = Len(lines) THEN Ok(gs)
    ELSE LET r == loop_body(cg, gs, lines[i + 1])
         IN  IF r.ret # Pending THEN r.ret
             ELSE run_lines(lines, i + 1, r.current_group, r.groups)

(* parse_desktop_entry_raw on a file whose content.lines() is `lines`.     *)
parse_desktop_entry_raw(lines) == run_lines(lines, 0, <<>>, EmptyMap)

----------------------------------------------------------------------------
(* The typed projection.                                                   *)

(* value.parse::<bool>(): only the literals "true" and "false" parse.      *)
parse_bool(s) ==
    IF s = sTrue THEN Ok(TRUE)
    ELSE IF s = sFalse THEN Ok(FALSE)
    ELSE [tag |-> "Err", kind |-> "ParseBoolError"]

(* Result::is_ok_and(|e| e)                                                *)
is_ok_and(r) == r.tag = "Ok" /\ r.value

(* A variant that drops a value that does not parse.                       *)
get_bool_dropping(entry, k) ==
    IF k \in DOMAIN entry /\ parse_bool(entry[k]).tag = "Ok"
    THEN Some(parse_bool(entry[k]).value)
    ELSE None

(* entry.get(k).map(|value| value.parse().is_ok_and(|e| e))                *)
get_bool(entry, k) ==
    IF k \in DOMAIN entry THEN Some(is_ok_and(parse_bool(entry[k]))) ELSE None

(* The fields every variant has, but for the required ones.                *)
common_fields(entry) ==
    [version      |-> get(entry, sVersion),
     generic_name |-> get(entry, sGenericName),
     no_display   |-> get_bool(entry, sNoDisplay),
     comment      |-> get(entry, sComment),
     icon         |-> get(entry, sIcon),
     hidden       |-> get_bool(entry, sHidden),
     only_show_in |-> get(entry, sOnlyShowIn),
     not_show_in  |-> get(entry, sNotShowIn)]

(* TryFrom<&HashMap<String, String>> for ApplicationDesktopEntry           *)
ApplicationDesktopEntry_try_from(entry) ==
    IF sName \notin DOMAIN entry THEN FormatError(msgMissingName)
    ELSE Ok(common_fields(entry) @@
            [name                    |-> entry[sName],
             try_exec                |-> get(entry, sTryExec),
             exec                    |-> get(entry, sExec),
             path                    |-> get(entry, sPath),
             terminal                |-> get_bool(entry, sTerminal),
             actions                 |-> get(entry, sActions),
             mime_type               |-> get(entry, sMimeType),
             categories              |-> get(entry, sCategories),
             keywords                |-> get(entry, sKeywords),
             startup_notify          |-> get_bool(entry, sStartupNotify),
             startup_wm_class        |-> get(entry, sStartupWMClass),
             prefers_non_default_gpu |-> get_bool(entry, sPrefersNonDefaultGPU),
             single_main_window      |-> get_bool(entry, sSingleMainWindow)])

(* A variant that reads URL before Name.                                   *)
LinkDesktopEntry_try_from_url_first(entry) ==
    IF sURL \notin DOMAIN entry THEN FormatError(msgMissingURL)
    ELSE IF sName \notin DOMAIN entry THEN FormatError(msgMissingName)
    ELSE Ok(common_fields(entry) @@ [name |-> entry[sName], url |-> entry[sURL]])

(* TryFrom<&HashMap<String, String>> for LinkDesktopEntry: the fields are  *)
(* evaluated in the order written, so a missing Name is reported before a  *)
(* missing URL.                                                            *)
LinkDesktopEntry_try_from(entry) ==
    IF sName \notin DOMAIN entry THEN FormatError(msgMissingName)
    ELSE IF sURL \notin DOMAIN entry THEN FormatError(msgMissingURL)
    ELSE Ok(common_fields(entry) @@ [name |-> entry[sName], url |-> entry[sURL]])

(* TryFrom<&HashMap<String, String>> for DirectoryDesktopEntry             *)
DirectoryDesktopEntry_try_from(entry) ==
    IF sName \notin DOMAIN entry THEN FormatError(msgMissingName)
    ELSE Ok(common_fields(entry) @@ [name |-> entry[sName]])

(* .map(|e| DesktopEntryType::V(e))                                        *)
map_variant(r, v) == IF r.tag = "Ok" THEN Ok([variant |-> v, entry |-> r.value]) ELSE r

(* A variant whose Link arm builds a Directory entry.                      *)
DesktopEntryType_try_from_link_arm(value) ==
    IF sDesktopEntry \notin DOMAIN value THEN FormatError(msgGroupMissing)
    ELSE LET group == value[sDesktopEntry]
         IN  IF sType \notin DOMAIN group THEN FormatError(msgTypeMissing)
             ELSE LET unknown == group[sType]
                  IN  IF unknown = sApplication
                      THEN map_variant(ApplicationDesktopEntry_try_from(group),
                                       "Application")
                      ELSE IF unknown = sLink
                      THEN map_variant(DirectoryDesktopEntry_try_from(group),
                                       "Directory")
                      ELSE IF unknown = sDirectory
                      THEN map_variant(DirectoryDesktopEntry_try_from(group),
                                       "Directory")
                      ELSE FormatError(msgUnknownType \o unknown)

(* A variant that reads Type from any group that has one.                  *)
DesktopEntryType_try_from_any_group(value) ==
    LET typed == {g \in DOMAIN value : sType \in DOMAIN value[g]}
    IN  IF typed = {} THEN FormatError(msgGroupMissing)
        ELSE LET group == IF sDesktopEntry \in typed THEN value[sDesktopEntry]
                          ELSE value[CHOOSE g \in typed : TRUE]
                 unknown == group[sType]
             IN  IF unknown = sApplication
                 THEN map_variant(ApplicationDesktopEntry_try_from(group), "Application")
                 ELSE IF unknown = sLink
                 THEN map_variant(LinkDesktopEntry_try_from(group), "Link")
                 ELSE IF unknown = sDirectory
                 THEN map_variant(DirectoryDesktopEntry_try_from(group), "Directory")
                 ELSE FormatError(msgUnknownType \o unknown)

(* TryFrom<RawDesktopEntry> for DesktopEntryType                           *)
DesktopEntryType_try_from(value) ==
    IF sDesktopEntry \notin DOMAIN value THEN FormatError(msgGroupMissing)
    ELSE LET group == value[sDesktopEntry]
         IN  IF sType \notin DOMAIN group THEN FormatError(msgTypeMissing)
             ELSE LET unknown == group[sType]
                  IN  IF unknown = sApplication
                      THEN map_variant(ApplicationDesktopEntry_try_from(group),
                                       "Application")
                      ELSE IF unknown = sLink
                      THEN map_variant(LinkDesktopEntry_try_from(group), "Link")
                      ELSE IF unknown = sDirectory
                      THEN map_variant(DirectoryDesktopEntry_try_from(group),
                                       "Directory")
                      ELSE FormatError(msgUnknownType \o unknown)

----------------------------------------------------------------------------
(* Inputs.                                                                 *)

MaxLines == 4

MaxBoolKeys == 1

lEmpty == <<>>
lComment == <<"#","a","=","b">>
lDesktopEntry == <<"[">> \o sDesktopEntry \o <<"]">>
lGroupG == <<"[","G","]">>
lGroupNoName == <<"[","]">>
lTypeLink == sType \o <<"=">> \o sLink
lTypePadded == <<" ">> \o sType \o <<" ","="," ","a","=","b"," ">>
lNameFoo == sName \o <<"=","F","o","o">>
lBlank == <<" ">>
lWord == <<"F","o","o">>

InputLines ==
    {lEmpty, lComment, lDesktopEntry, lGroupG, lGroupNoName, lTypeLink, lTypePadded,
     lNameFoo, lBlank, lWord}

(* What content.lines() can be: up to MaxLines lines.                      *)
Inputs == UNION {[1..n -> InputLines] : n \in 0..MaxLines}

sFoo == <<"F","o","o">>
sWidget == <<"W","i","d","g","e","t">>
sLinkLower == <<"l","i","n","k">>
sTrueCapital == <<"T","r","u","e">>
sNotABool == <<"n","o","t","a","b","o","o","l">>
sOtherGroup == <<"d","e","s","k","t","o","p"," ","e","n","t","r","y">>

TypeValues == {sApplication, sLink, sDirectory, sWidget, sLinkLower}

BoolKeys ==
    {sNoDisplay, sHidden, sTerminal, sStartupNotify, sPrefersNonDefaultGPU,
     sSingleMainWindow}

BoolValues == {sTrue, sFalse, sTrueCapital, sNotABool}

(* The maps from at most n keys of K to values of V.                       *)
MapsOver(K, V, n) == UNION {[S -> V] : S \in {T \in SUBSET K : Cardinality(T) <= n}}

(* "Desktop Entry" groups: any Type or none, any of Name, URL and Exec,    *)
(* and up to MaxBoolKeys boolean keys with any of the boolean values.      *)
DesktopEntryGroups ==
    {t @@ s @@ b : t \in MapsOver({sType}, TypeValues, 1),
                   s \in MapsOver({sName, sURL, sExec}, {sFoo}, 3),
                   b \in MapsOver(BoolKeys, BoolValues, MaxBoolKeys)}

(* A group that is not "Desktop Entry": empty, or a complete Directory.    *)
OtherGroups ==
    {EmptyMap, (sType :> sDirectory) @@ (sName :> sWidget) @@ (sHidden :> sTrue)}

(* Raw mappings a caller can build: with or without "Desktop Entry", with  *)
(* or without another group.                                               *)
RawInputs ==
    {d @@ o : d \in {EmptyMap} \cup {sDesktopEntry :> g : g \in DesktopEntryGroups},
              o \in {EmptyMap} \cup {sOtherGroup :> g : g \in OtherGroups}}

----------------------------------------------------------------------------
(* parse_desktop_entry: the line loop, then the projection.                *)

Init ==
    /\ content \in Inputs
    /\ idx = 0
    /\ current_group = <<>>
    /\ groups = EmptyMap
    /\ pc = "lines"
    /\ raw_result = Pending
    /\ result = Pending

(* The loop is at a line: the next line to read is content[idx + 1].       *)
AtLine == pc = "lines" /\ idx < Len(content)

(* What the loop body does with the next line.                             *)
Body == loop_body(current_group, groups, content[idx + 1])

(* `continue`, or the end of the body: on to the next line.                *)
Continue ==
    /\ Body.ret = Pending
    /\ idx' = idx + 1
    /\ current_group' = Body.current_group
    /\ groups' = Body.groups
    /\ UNCHANGED <<content, pc, raw_result, result>>

(* `return Err(..)`: the locals are dropped with the function's frame.     *)
Return ==
    /\ Body.ret # Pending
    /\ raw_result' = Body.ret
    /\ pc' = "returned"
    /\ UNCHANGED <<content, idx, current_group, groups, result>>

(* An empty line or a comment.                                             *)
SkipLine ==
    /\ AtLine
    /\ Body.branch = "skip"
    /\ Continue

(* A group header: current_group becomes the name between the brackets.    *)
GroupHeader ==
    /\ AtLine
    /\ Body.branch = "header"
    /\ Continue

(* A property line while current_group is empty.                           *)
EntryOutsideGroup ==
    /\ AtLine
    /\ Body.branch = "outside"
    /\ Return

(* A property line without '='.                                            *)
EntryNotKeyValue ==
    /\ AtLine
    /\ Body.branch = "not_kv"
    /\ Return

(* A property line: its trimmed key and value go into the current group.   *)
InsertEntry ==
    /\ AtLine
    /\ Body.branch = "insert"
    /\ Continue

(* Ok(groups) after the last line.                                         *)
ReturnGroups ==
    /\ pc = "lines"
    /\ idx = Len(content)
    /\ raw_result' = Ok(groups)
    /\ pc' = "returned"
    /\ UNCHANGED <<content, idx, current_group, groups, result>>

(* Ok(raw_entry) => raw_entry.try_into()                                   *)
ProjectRaw ==
    /\ pc = "returned"
    /\ raw_result.tag = "Ok"
    /\ result' = DesktopEntryType_try_from(raw_result.value)
    /\ pc' = "done"
    /\ UNCHANGED <<content, idx, current_group, groups, raw_result>>

(* Err(error) => Err(error)                                                *)
PropagateError ==
    /\ pc = "returned"
    /\ raw_result.tag = "Err"
    /\ result' = raw_result
    /\ pc' = "done"
    /\ UNCHANGED <<content, idx, current_group, groups, raw_result>>

Next ==
    \/ SkipLine
    \/ GroupHeader
    \/ EntryOutsideGroup
    \/ EntryNotKeyValue
    \/ InsertEntry
    \/ ReturnGroups
    \/ ProjectRaw
    \/ PropagateError

Spec == Init /\ [][Next]_vars

----------------------------------------------------------------------------
(* The projection called on a raw mapping the caller built.                *)

InitProj ==
    /\ content = <<>>
    /\ idx = 0
    /\ current_group = <<>>
    /\ groups \in RawInputs
    /\ pc = "try_from"
    /\ raw_result = Ok(groups)
    /\ result = Pending

TryFrom ==
    /\ pc = "try_from"
    /\ result' = DesktopEntryType_try_from(raw_result.value)
    /\ pc' = "done"
    /\ UNCHANGED <<content, idx, current_group, groups, raw_result>>

NextProj == TryFrom

SpecProj == InitProj /\ [][NextProj]_vars

----------------------------------------------------------------------------
(* The vocabulary of the properties, written from their wording and not    *)
(* from the operators above.                                               *)

Returned == pc \in {"returned", "done"}

BlankLine(l) == l = <<>>

CommentLine(l) == Len(l) >= 1 /\ l[1] = "#"

HeaderLine(l) == Len(l) >= 2 /\ l[1] = "[" /\ l[Len(l)] = "]"

PropertyLine(l) == ~BlankLine(l) /\ ~CommentLine(l) /\ ~HeaderLine(l)

HasEquals(l) == \E i \in 1..Len(l) : l[i] = "="

(* The n characters of s after its first a characters.                     *)
Slice(s, a, n) == [i \in 1..n |-> s[a + i]]

NameBetweenBrackets(l) == Slice(l, 1, Len(l) - 2)

FirstEquals(l) == CHOOSE p \in 1..Len(l) : l[p] = "=" /\ \A q \in 1..(p - 1) : l[q] # "="

KeyPart(l) == Slice(l, 0, FirstEquals(l) - 1)

ValuePart(l) == Slice(l, FirstEquals(l), Len(l) - FirstEquals(l))

Blank(c) == c = " " \/ c = "\t"

(* t is s without the whitespace around it.                                *)
IsTrimOf(t, s) ==
    /\ t = <<>> \/ (~Blank(t[1]) /\ ~Blank(t[Len(t)]))
    /\ \E a \in 0..(Len(s) - Len(t)) :
          /\ Slice(s, a, Len(t)) = t
          /\ \A i \in 1..a : Blank(s[i])
          /\ \A i \in (a + Len(t) + 1)..Len(s) : Blank(s[i])

Trimmed(s) ==
    CHOOSE t \in {Slice(s, x[1], x[2]) :
                    x \in {y \in (0..Len(s)) \X (0..Len(s)) : y[1] + y[2] <= Len(s)}} :
        IsTrimOf(t, s)

KeyOf(l) == Trimmed(KeyPart(l))

ValueOf(l) == Trimmed(ValuePart(l))

(* t occurs in s as written.                                               *)
Includes(s, t) == \E a \in 0..(Len(s) - Len(t)) : Slice(s, a, Len(t)) = t

Lines == 1..Len(content)

Headers == {i \in Lines : HeaderLine(content[i])}

Properties == {i \in Lines : PropertyLine(content[i])}

HeadersBefore(i) == {h \in Headers : h < i}

(* The most recent header line before line i.                              *)
HeaderOf(i) == CHOOSE h \in HeadersBefore(i) : \A j \in HeadersBefore(i) : j <= h

(* The property lines written under a header named g.                      *)
PropertiesOf(g) ==
    {i \in Properties :
        HeadersBefore(i) # {} /\ NameBetweenBrackets(content[HeaderOf(i)]) = g}

(* The last property line under a header named g whose key is k.           *)
LastOf(g, k) ==
    CHOOSE i \in PropertiesOf(g) :
        /\ KeyOf(content[i]) = k
        /\ \A j \in PropertiesOf(g) : KeyOf(content[j]) = k => j <= i

(* What the lines say group g holds.                                       *)
Written(g) ==
    [k \in {KeyOf(content[i]) : i \in PropertiesOf(g)} |->
        ValueOf(content[LastOf(g, k)])]

(* What the returned mapping holds for g; nothing when it has no entry.    *)
Stored(g) ==
    IF g \in DOMAIN raw_result.value THEN raw_result.value[g] ELSE [k \in {} |-> <<>>]

IsFormatError(r) ==
    r.tag = "Err" /\ r.kind = "FormatError" /\ "value" \notin DOMAIN r

----------------------------------------------------------------------------
(* C1: an input of one header line `[G]`, G any string, followed by one or *)
(* more key=value lines parses, and the mapping returned has group G, in   *)
(* which each trimmed key maps to its trimmed value, the value being all   *)
(* that follows the first `=`.                                             *)
C1_OneGroupParses ==
    (/\ Returned
     /\ Len(content) >= 2
     /\ HeaderLine(content[1])
     /\ \A i \in 2..Len(content) : PropertyLine(content[i]) /\ HasEquals(content[i]))
    => /\ raw_result.tag = "Ok"
       /\ NameBetweenBrackets(content[1]) \in DOMAIN raw_result.value
       /\ \A i \in 2..Len(content) :
             LET g == raw_result.value[NameBetweenBrackets(content[1])]
                 k == KeyOf(content[i])
             IN  /\ k \in DOMAIN g
                 /\ (\A j \in (i + 1)..Len(content) : KeyOf(content[j]) # k)
                        => g[k] = ValueOf(content[i])

(* C2: when the first property line comes before every header line, the    *)
(* raw parser returns FormatError "Entry found outside of group" and no    *)
(* mapping, whatever the line holds and whatever follows it.               *)
C2_EntryOutsideGroup ==
    (/\ Returned
     /\ \E i \in Properties : \A j \in 1..(i - 1) : j \notin Properties \cup Headers)
    => /\ IsFormatError(raw_result)
       /\ raw_result.msg = msgOutsideGroup
       /\ pc = "done" => result = raw_result

C2_Witness ==
    /\ pc = "done"
    /\ Len(content) >= 3
    /\ CommentLine(content[1])
    /\ PropertyLine(content[2]) /\ HasEquals(content[2])
    /\ HeaderLine(content[3])
    /\ raw_result.tag = "Err"

(* C3: a line that is not empty, is no comment, is no header and has no    *)
(* `=` makes the raw parser return FormatError wherever it stands, and the *)
(* entries read before it are not returned.                                *)
C3_EntryNotKeyValue ==
    (/\ Returned
     /\ \E i \in Properties : ~HasEquals(content[i]))
    => /\ IsFormatError(raw_result)
       /\ pc = "done" => result = raw_result

C3_Witness ==
    /\ pc = "done"
    /\ Len(content) >= 3
    /\ HeaderLine(content[1])
    /\ PropertyLine(content[2]) /\ HasEquals(content[2])
    /\ content[3] = <<" ">>
    /\ groups # <<>>
    /\ IsFormatError(raw_result)

(* C4: inserting an empty line or a comment anywhere in the input leaves   *)
(* the outcome of the raw parser as it is, mapping or error, and reading   *)
(* such a line leaves the current group and the mapping as they are.       *)
C4_SkippedLines == {<<>>, <<"#">>, <<"#","a","=","b">>, <<"#","[","G","]">>}

C4_Inserted(p, c) ==
    [i \in 1..(Len(content) + 1) |->
        IF i <= p THEN content[i] ELSE IF i = p + 1 THEN c ELSE content[i - 1]]

C4_SkippedLineChangesNothing ==
    /\ pc = "returned" =>
          \A p \in 0..Len(content) : \A c \in C4_SkippedLines :
              parse_desktop_entry_raw(C4_Inserted(p, c)) = raw_result
    /\ (pc = "lines" /\ idx < Len(content)
            /\ (BlankLine(content[idx + 1]) \/ CommentLine(content[idx + 1])))
       => /\ Body.ret = [tag |-> "Pending"]
          /\ Body.current_group = current_group
          /\ Body.groups = groups

C4_Witness ==
    /\ pc = "returned"
    /\ Len(content) >= 4
    /\ HeaderLine(content[1])
    /\ CommentLine(content[2])
    /\ PropertyLine(content[3])
    /\ BlankLine(content[4])
    /\ raw_result.tag = "Ok"
    /\ raw_result.value # <<>>

(* C5: in a parsed input, a group named in two or more header lines holds  *)
(* the union of the properties written under all of them, each key with    *)
(* the value of the last line that writes it; re-opening clears nothing,   *)
(* and every property is stored in the group of the most recent header     *)
(* before it and nowhere else.                                             *)
C5_Reopened ==
    {g \in {NameBetweenBrackets(content[h]) : h \in Headers} :
        Cardinality({h \in Headers : NameBetweenBrackets(content[h]) = g}) >= 2}

C10_BareDesktopEntry ==
    /\ \E h \in Headers : NameBetweenBrackets(content[h]) = sDesktopEntry
    /\ PropertiesOf(sDesktopEntry) = {}

----------------------------------------------------------------------------
(* The properties of the projection, over SpecProj.                        *)

Projected == pc = "done"

HasDesktopEntry == sDesktopEntry \in DOMAIN raw_result.value

DesktopEntry == raw_result.value[sDesktopEntry]

HasType == HasDesktopEntry /\ sType \in DOMAIN DesktopEntry

VariantOfType(t) ==
    CASE t = <<"A","p","p","l","i","c","a","t","i","o","n">> -> "Application"
      [] t = <<"L","i","n","k">> -> "Link"
      [] t = <<"D","i","r","e","c","t","o","r","y">> -> "Directory"
      [] OTHER -> "none"

(* C6: the projection fails with FormatError when there is no group named  *)
(* "Desktop Entry"; else when the group has no Type; else, for the Types   *)
(* Application, Link and Directory its result, if Ok, is the variant of    *)
(* that name; else it fails with FormatError and a message that includes   *)
(* the Type as written.  The first, second and last of these errors do not *)
(* depend on the required keys being there.                                *)
C6_DispatchOrder ==
    Projected =>
        IF ~HasDesktopEntry \/ ~HasType
        THEN IsFormatError(result) /\ result.msg \notin {msgMissingName, msgMissingURL}
        ELSE IF VariantOfType(DesktopEntry[sType]) # "none"
        THEN result.tag = "Ok"
                => result.value.variant = VariantOfType(DesktopEntry[sType])
        ELSE /\ IsFormatError(result)
             /\ Includes(result.msg, DesktopEntry[sType])
             /\ result.msg \notin {msgMissingName, msgMissingURL}

C6_Witness ==
    /\ Projected
    /\ HasType
    /\ DesktopEntry[sType] = <<"W","i","d","g","e","t">>
    /\ sName \notin DOMAIN DesktopEntry
    /\ IsFormatError(result)
    /\ Includes(result.msg, <<"W","i","d","g","e","t">>)

C7_LinkWithoutURL ==
    /\ Projected
    /\ HasType
    /\ DesktopEntry[sType] = <<"L","i","n","k">>
    /\ sURL \notin DOMAIN DesktopEntry

(* C7, as stated: a "Desktop Entry" group with Type=Link and no URL key    *)
(* makes the projection fail with FormatError "Missing required key 'URL'". *)
C7_MissingURLReported ==
    C7_LinkWithoutURL => IsFormatError(result) /\ result.msg = msgMissingURL

(* C7, amended: such a group makes the projection fail with FormatError;   *)
(* the message is "Missing required key 'URL'" when the group has a Name,  *)
(* and "Missing required key 'Name'" when it has not.                      *)
C7_MissingURLReportedAfterName ==
    C7_LinkWithoutURL =>
        /\ IsFormatError(result)
        /\ sName \in DOMAIN DesktopEntry => result.msg = msgMissingURL
        /\ sName \notin DOMAIN DesktopEntry => result.msg = msgMissingName

C7_Witness ==
    /\ C7_LinkWithoutURL
    /\ sName \in DOMAIN DesktopEntry
    /\ result.msg = msgMissingURL

C8_BooleanKey(field) ==
    CASE field = "no_display" -> sNoDisplay
      [] field = "hidden" -> sHidden
      [] field = "terminal" -> sTerminal
      [] field = "startup_notify" -> sStartupNotify
      [] field = "prefers_non_default_gpu" -> sPrefersNonDefaultGPU
      [] field = "single_main_window" -> sSingleMainWindow

C8_BooleanFields(variant) ==
    IF variant = "Application"
    THEN {"no_display", "hidden", "terminal", "startup_notify",
          "prefers_non_default_gpu", "single_main_window"}
    ELSE {"no_display", "hidden"}

C8_WithoutBooleans(raw) ==
    [g \in DOMAIN raw |->
        [k \in DOMAIN raw[g] \ {C8_BooleanKey(f) : f \in C8_BooleanFields("Application")}
            |-> raw[g][k]]]

(* C8: each boolean field of the entry is None when its key is absent and  *)
(* Some(b) when it is present, b being true for the literal true alone;    *)
(* and the projection fails or not as it does without the boolean keys.    *)
C8_LenientBooleans ==
    Projected =>
        /\ result.tag = "Ok" =>
              \A f \in C8_BooleanFields(result.value.variant) :
                  LET k == C8_BooleanKey(f)
                  IN  result.value.entry[f] =
                          IF k \in DOMAIN DesktopEntry
                          THEN [some |-> TRUE,
                                value |-> DesktopEntry[k] = <<"t","r","u","e">>]
                          ELSE [some |-> FALSE]
        /\ result.tag = DesktopEntryType_try_from(C8_WithoutBooleans(raw_result.value)).tag

C8_Witness ==
    /\ Projected
    /\ result.tag = "Ok"
    /\ sHidden \in DOMAIN DesktopEntry
    /\ DesktopEntry[sHidden] = <<"n","o","t","a","b","o","o","l">>
    /\ result.value.entry.hidden = [some |-> TRUE, value |-> FALSE]

C9_DesktopEntryOnly ==
    [g \in DOMAIN raw_result.value \cap {sDesktopEntry} |-> raw_result.value[g]]

C9_OtherGroups ==
    {<<>>}
    \cup {n :> g :
            n \in {<<"G">>, <<"d","e","s","k","t","o","p"," ","e","n","t","r","y">>},
            g \in {<<>>, sType :> sWidget,
                   (sType :> sApplication) @@ (sName :> <<"G">>) @@ (sTerminal :> sTrue)}}

(* C9: the projection gives the same entry or the same error for every raw *)
(* mapping with this "Desktop Entry" group (or with none), whatever other  *)
(* groups the mapping has.                                                 *)
C9_OnlyDesktopEntryRead ==
    Projected =>
        \A o \in C9_OtherGroups :
            DesktopEntryType_try_from(C9_DesktopEntryOnly @@ o) = result

C9_Witness ==
    /\ Projected
    /\ DOMAIN raw_result.value \ {sDesktopEntry} # {}
    /\ HasType
    /\ DesktopEntry[sType] = <<"L","i","n","k">>
    /\ result.tag = "Ok"
    /\ result.value.variant = "Link"

====
